---- MODULE Spec2Model ----
(***************************************************************************)
(* Model of the conversation relay (backend/conversation_relay.js): the    *)
(* ConversationManager and the per-connection WebSocket handlers.          *)
(*                                                                         *)
(* Every `await` of a handler is a suspension point: the code up to the    *)
(* await is one atomic action, the continuation after the collaborator's   *)
(* answer is another.  A suspended handler is an element of `tasks`.       *)
(***************************************************************************)
EXTENDS Bags, FiniteSets, Integers, Sequences, TLC

(* ----------------------------- bounds ---------------------------------- *)
\* number of WebSocket events of one run that start work: 'start' events,
\* final fragments that are dispatched, 'stop' events of a started call and
\* 'close' events (the events that only overwrite the buffer or do nothing
\* are not limited)
MaxEvents == 3
\* ... in a run that starts in the middle of a call
MaxEventsMidCall == 2
\* ... in a run with two connected clients
MaxEventsTwo == 1

(* ------------------------- program constants --------------------------- *)
\* the first sentence of the prompt stands for the whole text
SYSTEM_PROMPT == "You are a professional AI secretary for Austin Kidwell's businesses"
Greeting == "Hello! Thank you for calling ASR Inc and Intellegix. This is Austin's AI assistant. How can I help you today?"
Apology == "I apologize, but I'm having trouble processing your request. Could you please repeat that?"
ErrorResponse == "I'm sorry, I didn't catch that. Could you please repeat your question?"
FailedIntent == "Call summary generation failed"
HistoryLimit == 21
TruncateAt == 200
SummaryDelay == 1000
TeardownDelay == 30000

(* ------------------------------ inputs --------------------------------- *)
Conns == {1, 2}
\* values of data.streamSid
StreamSids == {"MZa", "MZb"}
\* value of `sessionId` before any 'start' event (JS null)
NULL == "null"
\* a fragment message without data.alternatives[0]
NoAlt == [alt |-> FALSE, transcript |-> ""]
Alt(s) == [alt |-> TRUE, transcript |-> s]
InterimInputs == {NoAlt, Alt("I need")}
FinalInputs == {NoAlt, Alt(""), Alt(" "), Alt("hi")}
\* answers of the reasoning collaborator to a turn dispatch
Replies == {"ok"}
FAIL == "<rejected>"
\* answers of the reasoning collaborator to the summary prompt
SummaryResponses ==
    { "Here: {\"caller_intent\":\"x\"} done",
      "no json",
      "{oops}",
      "{} and {}" }

(* --------------------------- pure functions ---------------------------- *)
Min(a, b) == IF a < b THEN a ELSE b

CharAt(s, i) == SubSeq(s, i, i)

WhiteSpace == {" ", "\t", "\n", "\r"}

RECURSIVE TrimStart(_)
TrimStart(s) ==
    IF s = "" THEN s
    ELSE IF CharAt(s, 1) \in WhiteSpace THEN TrimStart(SubSeq(s, 2, Len(s)))
    ELSE s

RECURSIVE TrimEnd(_)
TrimEnd(s) ==
    IF s = "" THEN s
    ELSE IF CharAt(s, Len(s)) \in WhiteSpace THEN TrimEnd(SubSeq(s, 1, Len(s) - 1))
    ELSE s

\* String.prototype.trim
Trim(s) == TrimEnd(TrimStart(s))

\* String.prototype.substring(0, n)
Substring0(s, n) == SubSeq(s, 1, Min(n, Len(s)))

Msg(r, c) == [role |-> r, content |-> c]

\* a splice that removes four entries
Splice14(h) == SubSeq(h, 1, 1) \o SubSeq(h, 6, Len(h))

\* history.splice(1, 2)
Splice12(h) == SubSeq(h, 1, 1) \o SubSeq(h, 4, Len(h))

\* the turns of a history array: history.slice(1)
Slice1(h) == SubSeq(h, 2, Len(h))

TranscriptLine(m) ==
    (IF m.role = "user" THEN "Caller" ELSE "Assistant") \o ": " \o m.content

RECURSIVE JoinLines(_)
JoinLines(ms) ==
    IF Len(ms) = 0 THEN ""
    ELSE IF Len(ms) = 1 THEN TranscriptLine(ms[1])
    ELSE TranscriptLine(ms[1]) \o "\n" \o JoinLines(Tail(ms))

(* ----- summaryText.match(/\{[\s\S]*\}/) and JSON.parse ------------------ *)
\* index of the first ch in s, 0 when there is none
FirstIndexOf(s, ch) ==
    IF \E i \in 1..Len(s) : CharAt(s, i) = ch
    THEN CHOOSE i \in 1..Len(s) :
            /\ CharAt(s, i) = ch
            /\ \A j \in 1..(i - 1) : CharAt(s, j) # ch
    ELSE 0

\* index of the last ch in s, 0 when there is none
LastIndexOf(s, ch) ==
    IF \E i \in 1..Len(s) : CharAt(s, i) = ch
    THEN CHOOSE i \in 1..Len(s) :
            /\ CharAt(s, i) = ch
            /\ \A j \in (i + 1)..Len(s) : CharAt(s, j) # ch
    ELSE 0

\* the regular expression is greedy: it matches from the first "{" to the
\* last "}" that follows it
HasJsonMatch(s) ==
    /\ FirstIndexOf(s, "{") > 0
    /\ LastIndexOf(s, "}") > FirstIndexOf(s, "{")

JsonMatch(s) == SubSeq(s, FirstIndexOf(s, "{"), LastIndexOf(s, "}"))

Digits == {"0", "1", "2", "3", "4", "5", "6", "7", "8", "9"}

RECURSIVE SkipWs(_, _)
SkipWs(s, i) ==
    IF i <= Len(s) /\ CharAt(s, i) \in WhiteSpace THEN SkipWs(s, i + 1) ELSE i

\* the parsers take the position of the first character of the construct and
\* return the position after it, or 0 when the text is not well formed
RECURSIVE StringEnd(_, _)
StringEnd(s, i) ==
    IF i > Len(s) THEN 0
    ELSE IF CharAt(s, i) = "\"" THEN i + 1
    ELSE IF CharAt(s, i) = "\\" THEN StringEnd(s, i + 2)
    ELSE StringEnd(s, i + 1)

ParseString(s, i) ==
    IF i <= Len(s) /\ CharAt(s, i) = "\"" THEN StringEnd(s, i + 1) ELSE 0

RECURSIVE NumberEnd(_, _)
NumberEnd(s, i) ==
    IF i <= Len(s) /\ CharAt(s, i) \in Digits THEN NumberEnd(s, i + 1) ELSE i

RECURSIVE ParseValue(_, _)
RECURSIVE ParseMembers(_, _)

\* members of an object, starting at the key of the first one
ParseMembers(s, i) ==
    LET k == ParseString(s, i)
        c == IF k = 0 THEN 0 ELSE SkipWs(s, k)
        v == IF c = 0 \/ c > Len(s) \/ CharAt(s, c) # ":" THEN 0
             ELSE ParseValue(s, SkipWs(s, c + 1))
        e == IF v = 0 THEN 0 ELSE SkipWs(s, v)
    IN  IF e = 0 \/ e > Len(s) THEN 0
        ELSE IF CharAt(s, e) = "}" THEN e + 1
        ELSE IF CharAt(s, e) = "," THEN ParseMembers(s, SkipWs(s, e + 1))
        ELSE 0

ParseValue(s, i) ==
    IF i > Len(s) THEN 0
    ELSE IF CharAt(s, i) = "{"
         THEN LET j == SkipWs(s, i + 1)
              IN  IF j <= Len(s) /\ CharAt(s, j) = "}" THEN j + 1
                  ELSE ParseMembers(s, j)
    ELSE IF CharAt(s, i) = "\"" THEN ParseString(s, i)
    ELSE IF CharAt(s, i) \in Digits THEN NumberEnd(s, i)
    ELSE 0

\* JSON.parse accepts the text (objects, strings and unsigned integers)
JsonValid(s) ==
    LET e == ParseValue(s, SkipWs(s, 1))
    IN  e # 0 /\ SkipWs(s, e) = Len(s) + 1

(* -------------------------------- state -------------------------------- *)
VARIABLES
    wsState,              \* per connection: "none", "open" or "closed"
    sessionId,            \* per connection: `let sessionId`
    conversationBuffer,   \* per connection: `let conversationBuffer`
    isProcessing,         \* per connection: `let isProcessing`
    conversationHistory,  \* ConversationManager.conversationHistory: key -> array reference
    heap,                 \* the history arrays: reference -> sequence of messages
    tasks,                \* bag of handlers suspended at an await
    timers,               \* pending setTimeout callbacks, in firing order
    sent,                 \* per connection: the media frames passed to ws.send
    summaryLog,           \* per connection: the values returned by generateCallSummary
    stops,                \* per connection: number of 'stop' events handled with a sessionId
    tornDown,             \* keys whose delayed conversationHistory.delete has run
    lastFinal,            \* per connection: what became of its latest 'transcription' event
    journal,              \* per history array: every turn ever pushed onto it, and the
                          \* arrival number of the event that created it
    callLogs,             \* the CallLog table of the Flask backend, oldest row first
    searchQuery,          \* the query of the POST /api/calls/search being served
    searchResult,         \* the rows that request returned
    calls,                \* dashboard state `calls`: the list on display
    pagination,           \* dashboard state `pagination`
    searchParams,         \* dashboard state `searchParams`
    fetches,              \* bag of fetchCalls requests awaiting their response
    nEvents,              \* number of events counted against env.maxEvents so far
    env                   \* the environment of the run: the event budget and the
                          \* values its events carry (fixed by Init)

vars == <<wsState, sessionId, conversationBuffer, isProcessing,
          conversationHistory, heap, tasks, timers, sent, summaryLog,
          stops, tornDown, lastFinal, journal, nEvents, env,
          callLogs, searchQuery, searchResult, calls, pagination, searchParams,
          fetches>>

\* the state of the Flask backend and of the dashboard
appVars == <<callLogs, searchQuery, searchResult, calls, pagination, searchParams,
             fetches>>

\* the state of the conversation relay
relayVars == <<wsState, sessionId, conversationBuffer, isProcessing,
               conversationHistory, heap, tasks, timers, sent, summaryLog,
               stops, tornDown, lastFinal, journal, nEvents, env>>

counters == <<nEvents, env>>

connVars == <<wsState, sessionId, conversationBuffer, isProcessing>>

(* ------------------------------- helpers ------------------------------- *)
\* a suspended handler.  kind says which await it is suspended at:
\*   "greetingSpeech"  case 'start', generateSpeech(greeting)
\*   "reasoning"       processUserMessage, anthropic.messages.create
\*   "replySpeech"     case 'transcription', generateSpeech(response)
\*   "errorSpeech"     case 'transcription' catch, generateSpeech(errorResponse)
\*   "summary"         generateCallSummary, anthropic.messages.create
\* sid and ref are processUserMessage's sessionId argument and its `history`
\* array; text is the utterance or the transcript the handler holds; before
\* and stopsBefore record, for a dispatch, the turns the key had and the
\* number of 'stop' events the connection had handled when the dispatch began;
\* seq is the arrival number of the event the handler is handling; messages
\* is the `messages` argument of the request a dispatch is suspended at.
Task(k, c, sid, ref, text, before, stopsBefore, seq) ==
    [kind |-> k, conn |-> c, sid |-> sid, ref |-> ref, text |-> text,
     before |-> before, stopsBefore |-> stopsBefore, seq |-> seq,
     messages |-> <<>>]

AddTask(b, t) == b (+) SetToBag({t})
RemoveTask(b, t) == b (-) SetToBag({t})
TaskSet == BagToSet(tasks)

\* a pending setTimeout callback; armedAt is the number of events that had
\* arrived when setTimeout was called
Timer(k, c, sid, armedAt) == [kind |-> k, conn |-> c, sid |-> sid, armedAt |-> armedAt]

Delay(k) == IF k = "summary" THEN SummaryDelay ELSE TeardownDelay

\* setTimeout(cb, d): timers fire in the order of their deadlines.  A new
\* timer fires after every pending timer whose delay is not larger (that one
\* was armed earlier); it may fire before or after a pending timer with a
\* larger delay, depending on how long ago that one was armed.
InsertPositions(q, d) ==
    { p \in 0..Len(q) : \A i \in (p + 1)..Len(q) : Delay(q[i].kind) > d }

InsertAt(q, p, t) == SubSeq(q, 1, p) \o <<t>> \o SubSeq(q, p + 1, Len(q))

EmptyMap == [k \in {} |-> 0]

\* map.set(key, v) and map.delete(key)
MapSet(m, key, v) == [k \in DOMAIN m \cup {key} |-> IF k = key THEN v ELSE m[k]]
MapDelete(m, key) == [k \in DOMAIN m \ {key} |-> m[k]]

\* the history arrays still referenced by the map or by a suspended handler
Live(h, hist, tk) ==
    [r \in { x \in DOMAIN h :
                \/ \E k \in DOMAIN hist : hist[k] = x
                \/ \E t \in BagToSet(tk) : t.ref = x } |-> h[r]]

\* the journal of a history array created by event number seq, and the
\* journal after a push of message m
NewJournal(seq) == [pushed |-> <<>>, createdAt |-> seq]
Journalled(entry, m) == [entry EXCEPT !.pushed = Append(@, m)]

FreshRef == CHOOSE r \in 1..(Cardinality(DOMAIN heap) + 1) : r \notin DOMAIN heap

\* conversationHistory.has(key)
Has(key) == key \in DOMAIN conversationHistory

\* the push without the splice that keeps the history manageable
PushAssistantUntrimmed(history, assistantMessage) ==
    Append(history, Msg("assistant", assistantMessage))

\* processUserMessage after a successful anthropic.messages.create: push the
\* assistant message, then keep the history manageable
PushAssistant(history, assistantMessage) ==
    LET pushed == Append(history, Msg("assistant", assistantMessage))
    IN  IF Len(pushed) > HistoryLimit THEN Splice12(pushed) ELSE pushed

\* the array stored under key
HistoryOf(key) == heap[conversationHistory[key]]

\* the turns stored under key (none when the key has no entry)
Turns(key) == IF Has(key) THEN Slice1(HistoryOf(key)) ELSE <<>>

\* the media frame ws.send is given; seq is the arrival number of the event
\* whose handler sends it
Frame(sid, payload, seq) == [streamSid |-> sid, payload |-> payload, seq |-> seq]

\* ws.send of a media frame: with ws 8 a send on a socket that is not open
\* is dropped
Send(c, payload, seq) ==
    IF wsState[c] = "open"
    THEN [sent EXCEPT ![c] = Append(@, Frame(sessionId[c], payload, seq))]
    ELSE sent

\* a WebSocket event can be delivered on connection c
CanDeliver(c) == wsState[c] = "open"

\* an event that starts work can still be delivered
InBudget == nEvents < env.maxEvents

RECURSIVE SumOver(_, _)
SumOver(f, S) ==
    IF S = {} THEN 0
    ELSE LET x == CHOOSE y \in S : TRUE IN f[x] + SumOver(f, S \ {x})

(* -------------------------------- Init --------------------------------- *)
\* useState({}): no search parameters
NoParams == [k \in {} |-> ""]

\* the relay on its own: an empty CallLog table, no search being served and
\* no dashboard open
RelayOnly ==
    /\ callLogs = {}
    /\ searchQuery = NULL
    /\ searchResult = NULL
    /\ calls = <<>>
    /\ pagination = [page |-> 1]
    /\ searchParams = NoParams
    /\ fetches = EmptyBag

Env(maxEvents, sids, interims, finals) ==
    [maxEvents |-> maxEvents, sids |-> sids, interims |-> interims, finals |-> finals]

\* one call: a single stream identifier
MainEnv == Env(MaxEvents, {"MZa"}, InterimInputs, FinalInputs)

\* the server is listening and one client has connected (wss.on('connection'))
Init ==
    /\ env = MainEnv
    /\ wsState = [c \in Conns |-> IF c = 1 THEN "open" ELSE "none"]
    /\ sessionId = [c \in Conns |-> NULL]
    /\ conversationBuffer = [c \in Conns |-> ""]
    /\ isProcessing = [c \in Conns |-> FALSE]
    /\ conversationHistory = EmptyMap
    /\ heap = EmptyMap
    /\ tasks = EmptyBag
    /\ timers = <<>>
    /\ sent = [c \in Conns |-> <<>>]
    /\ summaryLog = [c \in Conns |-> <<>>]
    /\ stops = [c \in Conns |-> 0]
    /\ tornDown = {}
    /\ lastFinal = [c \in Conns |-> "none"]
    /\ journal = EmptyMap
    /\ nEvents = 0
    /\ RelayOnly

\* the history array after n turns "hi" answered "ok"
RECURSIVE AfterTurns(_)
AfterTurns(n) ==
    IF n = 0 THEN <<Msg("system", SYSTEM_PROMPT)>>
    ELSE PushAssistant(Append(AfterTurns(n - 1), Msg("user", "hi")), "ok")

\* the frames sent on a connection whose 'start' was event number first and
\* that has had n turns "hi" answered "ok" since
SentAfter(sid, first, n) ==
    <<Frame(sid, Greeting, first)>> \o [i \in 1..n |-> Frame(sid, "ok", first + i)]

\* the numbers of completed turns a mid-call run starts from: one turn, and
\* the ten turns that fill the history to HistoryLimit entries
MidCallTurns == {1, 10}

\* one client, in the middle of call "MZa": the greeting has been sent and n
\* turns have been dispatched and answered (n + 1 events so far)
InitMidCall ==
    \E n \in MidCallTurns :
        /\ env = Env(n + 1 + MaxEventsMidCall, {"MZa"}, InterimInputs, FinalInputs)
        /\ wsState = [c \in Conns |-> IF c = 1 THEN "open" ELSE "none"]
        /\ sessionId = [c \in Conns |-> IF c = 1 THEN "MZa" ELSE NULL]
        /\ conversationBuffer = [c \in Conns |-> ""]
        /\ isProcessing = [c \in Conns |-> FALSE]
        /\ conversationHistory = MapSet(EmptyMap, "MZa", 1)
        /\ heap = MapSet(EmptyMap, 1, AfterTurns(n))
        /\ journal = MapSet(EmptyMap, 1, [pushed |-> Slice1(AfterTurns(n)), createdAt |-> 1])
        /\ tasks = EmptyBag
        /\ timers = <<>>
        /\ sent = [c \in Conns |-> IF c = 1 THEN SentAfter("MZa", 0, n) ELSE <<>>]
        /\ summaryLog = [c \in Conns |-> <<>>]
        /\ stops = [c \in Conns |-> 0]
        /\ tornDown = {}
        /\ lastFinal = [c \in Conns |-> IF c = 1 THEN "dispatched" ELSE "none"]
        /\ nEvents = n + 1
        /\ RelayOnly

\* two clients, each past its 'start' and its greeting: connection 1 carries
\* call "MZa", connection 2 the same call or call "MZb"; connection 1 is
\* listening (2 events so far) or has dispatched the turn "hi" and awaits the
\* reasoning collaborator (3 events so far)
InitTwo ==
    \E sid2 \in StreamSids, n \in {0, 1} :
        /\ env = Env(2 + n + MaxEventsTwo, {"MZa"}, {Alt("I need")}, {Alt("hi")})
        /\ wsState = [c \in Conns |-> "open"]
        /\ sessionId = [c \in Conns |-> IF c = 1 THEN "MZa" ELSE sid2]
        /\ conversationBuffer = [c \in Conns |-> ""]
        /\ isProcessing = [c \in Conns |-> c = 1 /\ n = 1]
        /\ conversationHistory = IF n = 1 THEN MapSet(EmptyMap, "MZa", 1) ELSE EmptyMap
        /\ heap = IF n = 1
                  THEN MapSet(EmptyMap, 1, Append(AfterTurns(0), Msg("user", "hi")))
                  ELSE EmptyMap
        /\ journal = IF n = 1
                     THEN MapSet(EmptyMap, 1, Journalled(NewJournal(2), Msg("user", "hi")))
                     ELSE EmptyMap
        /\ tasks = IF n = 1
                   THEN SetToBag({[Task("reasoning", 1, "MZa", 1, "hi", <<>>, 0, 2)
                                     EXCEPT !.messages = <<Msg("user", "hi")>>]})
                   ELSE EmptyBag
        /\ timers = <<>>
        /\ sent = [c \in Conns |->
                      SentAfter(IF c = 1 THEN "MZa" ELSE sid2, c - 1, 0)]
        /\ summaryLog = [c \in Conns |-> <<>>]
        /\ stops = [c \in Conns |-> 0]
        /\ tornDown = {}
        /\ lastFinal = [c \in Conns |-> IF c = 1 /\ n = 1 THEN "dispatched" ELSE "none"]
        /\ nEvents = 2 + n
        /\ RelayOnly

(* ------------------- WebSocket events: ws.on('message') ---------------- *)
\* case 'start': up to the await of generateSpeech(greeting)
Start(c, sid) ==
    /\ CanDeliver(c)
    /\ InBudget
    /\ nEvents' = nEvents + 1
    /\ sessionId' = [sessionId EXCEPT ![c] = sid]
    /\ tasks' = AddTask(tasks, Task("greetingSpeech", c, NULL, 0, Greeting, <<>>, 0, nEvents))
    /\ UNCHANGED <<wsState, conversationBuffer, isProcessing, conversationHistory,
                   heap, timers, sent, summaryLog, stops, tornDown, env, lastFinal, journal>>
    /\ UNCHANGED appVars

\* case 'interim-transcription'
Interim(c, inp) ==
    /\ CanDeliver(c)
    /\ conversationBuffer' =
          IF inp.alt THEN [conversationBuffer EXCEPT ![c] = inp.transcript]
          ELSE conversationBuffer
    /\ UNCHANGED <<wsState, sessionId, isProcessing, conversationHistory, heap,
                   tasks, timers, sent, summaryLog, stops, tornDown, counters, lastFinal, journal>>
    /\ UNCHANGED appVars

\* the condition without its in-flight test
AcceptsFinalNoFlag(c, inp) == inp.alt

\* the condition with a flag that is cleared once the reasoning request of
\* the dispatch has been answered
AcceptsFinalAfterReasoning(c, inp) ==
    inp.alt /\ \A t \in BagToSet(tasks) : ~(t.conn = c /\ t.kind = "reasoning")

\* the condition with one in-flight flag for the whole server
AcceptsFinalSharedFlag(c, inp) == inp.alt /\ \A d \in Conns : ~isProcessing[d]

\* the condition of case 'transcription':
\* data.alternatives && data.alternatives[0] && !isProcessing
AcceptsFinal(c, inp) == inp.alt /\ ~isProcessing[c]

\* the final text appended to the buffered interim text
UserMessageWithBuffer(c, inp) == conversationBuffer[c] \o inp.transcript

\* const userMessage = data.alternatives[0].transcript
UserMessage(c, inp) == inp.transcript

\* the test without trim()
NonBlankUntrimmed(s) == Len(s) > 0

\* userMessage.trim().length > 0
NonBlank(s) == Len(Trim(s)) > 0

\* case 'transcription': a final fragment that starts a dispatch, up to the
\* await of anthropic.messages.create inside processUserMessage
Dispatch(c, inp) ==
    LET userMessage == UserMessage(c, inp)
        key == sessionId[c]
        ref == IF Has(key) THEN conversationHistory[key] ELSE FreshRef
        history == IF Has(key) THEN heap[ref]
                   ELSE <<Msg("system", SYSTEM_PROMPT)>>
        pushed == Append(history, Msg("user", userMessage))
        entry == IF Has(key) THEN journal[ref] ELSE NewJournal(nEvents)
        request == [Task("reasoning", c, key, ref, userMessage, Turns(key),
                         stops[c], nEvents) EXCEPT !.messages = Slice1(pushed)]
    IN  /\ isProcessing' = [isProcessing EXCEPT ![c] = TRUE]
        /\ conversationHistory' = MapSet(conversationHistory, key, ref)
        /\ heap' = MapSet(heap, ref, pushed)
        /\ journal' = MapSet(journal, ref, Journalled(entry, Msg("user", userMessage)))
        /\ tasks' = AddTask(tasks, request)

\* what case 'transcription' does with a fragment: the two conditions at
\* lines 278 and 282, in the order the code tests them
Outcome(c, inp) ==
    IF ~AcceptsFinal(c, inp)
    THEN IF inp.alt THEN "busy" ELSE "noAlternative"
    ELSE IF NonBlank(UserMessage(c, inp)) THEN "dispatched" ELSE "blank"

\* case 'transcription'
Final(c, inp) ==
    /\ CanDeliver(c)
    /\ lastFinal' = [lastFinal EXCEPT ![c] = Outcome(c, inp)]
    /\ IF AcceptsFinal(c, inp) /\ NonBlank(UserMessage(c, inp))
       THEN /\ InBudget
            /\ nEvents' = nEvents + 1
            /\ Dispatch(c, inp)
       ELSE UNCHANGED <<isProcessing, conversationHistory, heap, tasks, journal, nEvents>>
    /\ UNCHANGED <<wsState, sessionId, conversationBuffer, timers, sent,
                   summaryLog, stops, tornDown, env>>
    /\ UNCHANGED appVars

\* endConversation(sid): arms the delayed conversationHistory.delete
\* (this.conversations is never written to, its delete has no effect)
EndConversation(q, sid) ==
    { InsertAt(q, p, Timer("teardown", 0, sid, nEvents)) : p \in InsertPositions(q, TeardownDelay) }

\* case 'stop'
Stop(c) ==
    /\ CanDeliver(c)
    /\ IF sessionId[c] # NULL
       THEN /\ InBudget
            /\ nEvents' = nEvents + 1
            /\ \E p \in InsertPositions(timers, SummaryDelay) :
                 timers' = InsertAt(timers, p, Timer("summary", c, NULL, nEvents))
            /\ stops' = [stops EXCEPT ![c] = @ + 1]
       ELSE UNCHANGED <<timers, stops, nEvents>>
    /\ UNCHANGED <<connVars, conversationHistory, heap, tasks, sent, summaryLog,
                   tornDown, env, lastFinal, journal>>
    /\ UNCHANGED appVars

\* cases 'connected', 'media' and default, and a message that is not JSON
OtherEvent(c) ==
    /\ CanDeliver(c)
    /\ UNCHANGED vars

\* a close handler that also starts the summary generation of case 'stop'
CloseWithSummary(c) ==
    /\ CanDeliver(c)
    /\ InBudget
    /\ nEvents' = nEvents + 1
    /\ wsState' = [wsState EXCEPT ![c] = "closed"]
    /\ IF sessionId[c] # NULL
       THEN \E p \in InsertPositions(timers, SummaryDelay) :
               timers' = InsertAt(timers, p, Timer("summary", c, NULL, nEvents))
       ELSE UNCHANGED timers
    /\ UNCHANGED <<sessionId, conversationBuffer, isProcessing, conversationHistory,
                   heap, tasks, sent, summaryLog, stops, tornDown, env, lastFinal, journal>>
    /\ UNCHANGED appVars

\* ws.on('close')
Close(c) ==
    /\ CanDeliver(c)
    /\ InBudget
    /\ nEvents' = nEvents + 1
    /\ wsState' = [wsState EXCEPT ![c] = "closed"]
    /\ IF sessionId[c] # NULL
       THEN timers' \in EndConversation(timers, sessionId[c])
       ELSE UNCHANGED timers
    /\ UNCHANGED <<sessionId, conversationBuffer, isProcessing, conversationHistory,
                   heap, tasks, sent, summaryLog, stops, tornDown, env, lastFinal, journal>>
    /\ UNCHANGED appVars

(* ------------------ continuations after an await ----------------------- *)
\* processUserMessage's catch: the history array is left as it is
CatchReasoning(history) == history

\* the collaborator's outcome handed on as it is
ReturnedRaw(out) == out

\* the value processUserMessage returns
Returned(out) == IF out = FAIL THEN Apology ELSE out

\* the reasoning collaborator answers a turn dispatch (out = FAIL: it rejects
\* or times out); processUserMessage returns and the handler goes on to the
\* await of generateSpeech(response)
ReasoningResolve(t, out) ==
    /\ t \in TaskSet
    /\ t.kind = "reasoning"
    /\ LET history == IF out = FAIL THEN CatchReasoning(heap[t.ref])
                      ELSE PushAssistant(heap[t.ref], out)
           next == Task("replySpeech", t.conn, NULL, 0, Returned(out), <<>>,
                        t.stopsBefore, t.seq)
           tk == AddTask(RemoveTask(tasks, t), next)
           entry == IF out = FAIL THEN journal[t.ref]
                    ELSE Journalled(journal[t.ref], Msg("assistant", out))
       IN  /\ tasks' = tk
           /\ heap' = Live(MapSet(heap, t.ref, history), conversationHistory, tk)
           /\ journal' = Live(MapSet(journal, t.ref, entry), conversationHistory, tk)
    /\ UNCHANGED <<connVars, conversationHistory, timers, sent, summaryLog,
                   stops, tornDown, counters, lastFinal>>
    /\ UNCHANGED appVars

\* the flag cleared only when the handler ends without an exception
FinallyUnlessThrown(c, ok) ==
    IF ok THEN [isProcessing EXCEPT ![c] = FALSE] ELSE isProcessing

\* finally { isProcessing = false }: runs whether the try block (or its
\* catch block) ended normally (ok) or by an exception
Finally(c, ok) == [isProcessing EXCEPT ![c] = FALSE]

\* case 'start' after generateSpeech(greeting): ws.send, or the outer catch
GreetingSpeechDone(t, ok) ==
    /\ t \in TaskSet
    /\ t.kind = "greetingSpeech"
    /\ tasks' = RemoveTask(tasks, t)
    /\ sent' = IF ok THEN Send(t.conn, t.text, t.seq) ELSE sent
    /\ UNCHANGED <<connVars, conversationHistory, heap, timers, summaryLog,
                   stops, tornDown, counters, lastFinal, journal>>
    /\ UNCHANGED appVars

\* case 'transcription' after generateSpeech(response): ws.send and finally,
\* or the catch block up to the await of generateSpeech(errorResponse)
ReplySpeechDone(t, ok) ==
    /\ t \in TaskSet
    /\ t.kind = "replySpeech"
    /\ IF ok
       THEN /\ tasks' = RemoveTask(tasks, t)
            /\ sent' = Send(t.conn, t.text, t.seq)
            /\ isProcessing' = Finally(t.conn, TRUE)
       ELSE /\ tasks' = AddTask(RemoveTask(tasks, t),
                                Task("errorSpeech", t.conn, NULL, 0, ErrorResponse,
                                     <<>>, t.stopsBefore, t.seq))
            /\ UNCHANGED <<sent, isProcessing>>
    /\ UNCHANGED <<wsState, sessionId, conversationBuffer, conversationHistory,
                   heap, timers, summaryLog, stops, tornDown, counters, lastFinal, journal>>
    /\ UNCHANGED appVars

\* case 'transcription' catch after generateSpeech(errorResponse): ws.send
\* and finally, or finally and the outer catch
ErrorSpeechDone(t, ok) ==
    /\ t \in TaskSet
    /\ t.kind = "errorSpeech"
    /\ tasks' = RemoveTask(tasks, t)
    /\ sent' = IF ok THEN Send(t.conn, t.text, t.seq) ELSE sent
    /\ isProcessing' = Finally(t.conn, ok)
    /\ UNCHANGED <<wsState, sessionId, conversationBuffer, conversationHistory,
                   heap, timers, summaryLog, stops, tornDown, counters, lastFinal, journal>>
    /\ UNCHANGED appVars

(* ------------------------- summary and teardown ------------------------ *)
\* getConversationSummary(key) returns null
NoConversation(key) == ~Has(key) \/ Len(HistoryOf(key)) <= 1

\* getConversationSummary(key).transcript
Transcript(key) == JoinLines(Slice1(HistoryOf(key)))

SummaryNull ==
    [kind |-> "null", caller_intent |-> "", summary |-> "", action_items |-> <<>>,
     json |-> ""]

\* the object JSON.parse returns, kept as the text it was parsed from
SummaryParsed(json) ==
    [kind |-> "parsed", caller_intent |-> "", summary |-> "", action_items |-> <<>>,
     json |-> json]

SummaryDegraded(transcript) ==
    [kind |-> "degraded", caller_intent |-> FailedIntent,
     summary |-> Substring0(transcript, TruncateAt) \o "...",
     action_items |-> <<>>, json |-> ""]

\* the value generateCallSummary returns once the collaborator has answered
\* (out = FAIL: the request is rejected; JSON.parse throwing is caught too)
CallSummary(out, transcript) ==
    IF out = FAIL THEN SummaryNull
    ELSE IF HasJsonMatch(out)
         THEN IF JsonValid(JsonMatch(out)) THEN SummaryParsed(JsonMatch(out))
              ELSE SummaryNull
    ELSE SummaryDegraded(transcript)

LogEntry(requested, response, result) ==
    [requested |-> requested, response |-> response, result |-> result]

\* the callback of case 'stop' runs: generateCallSummary(sessionId) up to the
\* await of anthropic.messages.create, or, when there is no conversation, to
\* its end: null is returned and endConversation(sessionId) is called
FireSummaryTimer ==
    /\ Len(timers) > 0
    /\ Head(timers).kind = "summary"
    /\ LET c == Head(timers).conn
           key == sessionId[c]
       IN  IF NoConversation(key)
           THEN /\ summaryLog' = [summaryLog EXCEPT ![c] =
                                     Append(@, LogEntry(FALSE, "", SummaryNull))]
                /\ timers' \in EndConversation(Tail(timers), key)
                /\ UNCHANGED tasks
           ELSE /\ tasks' = AddTask(tasks, Task("summary", c, key, 0, Transcript(key),
                                                <<>>, 0, 0))
                /\ timers' = Tail(timers)
                /\ UNCHANGED summaryLog
    /\ UNCHANGED <<connVars, conversationHistory, heap, sent, stops, tornDown, counters, lastFinal, journal>>
    /\ UNCHANGED appVars

\* the reasoning collaborator answers the summary prompt: generateCallSummary
\* returns, the summary is logged when it is not null, and
\* endConversation(sessionId) is called
SummaryResolve(t, out) ==
    /\ t \in TaskSet
    /\ t.kind = "summary"
    /\ tasks' = RemoveTask(tasks, t)
    /\ summaryLog' = [summaryLog EXCEPT ![t.conn] =
                         Append(@, LogEntry(TRUE, out, CallSummary(out, t.text)))]
    /\ timers' \in EndConversation(timers, sessionId[t.conn])
    /\ UNCHANGED <<connVars, conversationHistory, heap, sent, stops, tornDown, counters, lastFinal, journal>>
    /\ UNCHANGED appVars

\* the callback of endConversation runs: conversationHistory.delete(sessionId)
FireTeardownTimer ==
    /\ Len(timers) > 0
    /\ Head(timers).kind = "teardown"
    /\ LET key == Head(timers).sid
           hist == MapDelete(conversationHistory, key)
       IN  /\ conversationHistory' = hist
           /\ heap' = Live(heap, hist, tasks)
           /\ journal' = Live(journal, hist, tasks)
           /\ tornDown' = tornDown \cup {key}
    /\ timers' = Tail(timers)
    /\ UNCHANGED <<connVars, tasks, sent, summaryLog, stops, counters, lastFinal>>
    /\ UNCHANGED appVars

(* ------------------------------ Next ----------------------------------- *)
Next ==
    \/ \E c \in Conns, sid \in env.sids : Start(c, sid)
    \/ \E c \in Conns, inp \in env.interims : Interim(c, inp)
    \/ \E c \in Conns, inp \in env.finals : Final(c, inp)
    \/ \E c \in Conns : Stop(c)
    \/ \E c \in Conns : OtherEvent(c)
    \/ \E c \in Conns : Close(c)
    \/ \E t \in TaskSet, out \in Replies \cup {FAIL} : ReasoningResolve(t, out)
    \/ \E t \in TaskSet, ok \in BOOLEAN : GreetingSpeechDone(t, ok)
    \/ \E t \in TaskSet, ok \in BOOLEAN : ReplySpeechDone(t, ok)
    \/ \E t \in TaskSet, ok \in BOOLEAN : ErrorSpeechDone(t, ok)
    \/ FireSummaryTimer
    \/ \E t \in TaskSet, out \in SummaryResponses \cup {FAIL} : SummaryResolve(t, out)
    \/ FireTeardownTimer

Spec == Init /\ [][Next]_vars

\* the same program started in the middle of a call
SpecMidCall == InitMidCall /\ [][Next]_vars

\* the same program with two connected clients
SpecTwo == InitTwo /\ [][Next]_vars

\* what Node's event loop and the speech collaborator guarantee: an expired
\* timer's callback runs, and a speech request is answered or rejected.
\* Nothing makes the reasoning collaborator answer, anthropic.messages.create
\* is awaited without a timeout in this code.
Fairness ==
    /\ WF_vars(FireSummaryTimer)
    /\ WF_vars(FireTeardownTimer)
    /\ WF_vars(\E t \in TaskSet, ok \in BOOLEAN :
                  \/ GreetingSpeechDone(t, ok)
                  \/ ReplySpeechDone(t, ok)
                  \/ ErrorSpeechDone(t, ok))
    /\ WF_vars(\E t \in TaskSet, out \in SummaryResponses \cup {FAIL} :
                  SummaryResolve(t, out))

SpecFair == Init /\ [][Next]_vars /\ Fairness


(* ---------------- Flask backend: POST /api/calls/search ---------------- *)
\* most rows the CallLog table holds
MaxRows == 3

\* a CallLog row; created_at is the row's rank in time
CallLog(id, phone, intent, summary, transcript) ==
    [id |-> id, caller_phone |-> phone, caller_intent |-> intent,
     summary |-> summary, transcript |-> transcript, created_at |-> id]

\* the rows a table is drawn from
RowPool ==
    { CallLog(1, "555", "billing", "refund due", "hello"),
      CallLog(2, "556", "sales", "new order", "bill me"),
      CallLog(3, "777", "support", "cell fault", "help"),
      CallLog(4, "778", "other", "no message", "") }

\* values of data.get('query', ''): a request without the field searches ""
Queries == {"", "55", "bill", "ell", "or", "help", "zz"}

\* Column.contains(q): column LIKE '%' || q || '%', on text without wildcards
Contains(s, q) ==
    \E i \in 0..(Len(s) - Len(q)) : SubSeq(s, i + 1, i + Len(q)) = q

\* the filter of search_calls
MatchesQuery(row, query) ==
    \/ Contains(row.caller_phone, query)
    \/ Contains(row.caller_intent, query)
    \/ Contains(row.summary, query)

\* order_by(CallLog.created_at.desc()).all()
RECURSIVE OrderByCreatedAtDesc(_)
OrderByCreatedAtDesc(rows) ==
    IF rows = {} THEN <<>>
    ELSE LET latest == CHOOSE r \in rows : \A o \in rows : o.created_at <= r.created_at
         IN  <<latest>> \o OrderByCreatedAtDesc(rows \ {latest})

\* call.to_dict(), without the two columns no route filters on
ToDict(row) ==
    [id |-> row.id, caller_phone |-> row.caller_phone, transcript |-> row.transcript,
     summary |-> row.summary, caller_intent |-> row.caller_intent,
     created_at |-> row.created_at]

\* the body search_calls returns
SearchCalls(rows, query) ==
    LET found == OrderByCreatedAtDesc({ r \in rows : MatchesQuery(r, query) })
    IN  [i \in 1..Len(found) |-> ToDict(found[i])]

\* the relay with no client connected and nothing to deliver
RelayQuiet ==
    /\ env = Env(0, {}, {}, {})
    /\ wsState = [c \in Conns |-> "none"]
    /\ sessionId = [c \in Conns |-> NULL]
    /\ conversationBuffer = [c \in Conns |-> ""]
    /\ isProcessing = [c \in Conns |-> FALSE]
    /\ conversationHistory = EmptyMap
    /\ heap = EmptyMap
    /\ tasks = EmptyBag
    /\ timers = <<>>
    /\ sent = [c \in Conns |-> <<>>]
    /\ summaryLog = [c \in Conns |-> <<>>]
    /\ stops = [c \in Conns |-> 0]
    /\ tornDown = {}
    /\ lastFinal = [c \in Conns |-> "none"]
    /\ journal = EmptyMap
    /\ nEvents = 0

dashVars == <<calls, pagination, searchParams, fetches>>

\* the backend holds a table of at most MaxRows rows and has served no search
InitSearch ==
    /\ RelayQuiet
    /\ callLogs \in { t \in SUBSET RowPool : Cardinality(t) <= MaxRows }
    /\ searchQuery = NULL
    /\ searchResult = NULL
    /\ calls = <<>>
    /\ pagination = [page |-> 1]
    /\ searchParams = NoParams
    /\ fetches = EmptyBag

\* POST /api/calls/search with body {query: ...}
Search(query) ==
    /\ searchQuery' = query
    /\ searchResult' = SearchCalls(callLogs, query)
    /\ UNCHANGED <<callLogs, dashVars, relayVars>>

NextSearch == \E query \in Queries : Search(query)

SpecSearch == InitSearch /\ [][NextSearch]_vars

(* ------------------------ dashboard: React App ------------------------- *)
\* pages the user can ask for
MaxPage == 2
\* most fetchCalls requests awaiting their response at once
MaxFetches == 2

\* what SearchBar passes to onSearch
SearchInputs == {NoParams, [k \in {"keywords"} |-> "bill"]}

\* a fetchCalls(page, search) call awaiting its response; by names the caller
Fetch(page, search, by) == [page |-> page, search |-> search, by |-> by]

\* the list a server honouring the dashboard's contract returns for a request
Listing(page, search) == <<[page |-> page, search |-> search]>>

\* the values the interval callback reads: `pagination` and `searchParams` of
\* the render in which useEffect(..., []) ran, that is the first one
IntervalClosure == [page |-> 1, search |-> NoParams]

FetchSet == BagToSet(fetches)

CanFetch == BagCardinality(fetches) < MaxFetches

\* the App has mounted: the effect has called fetchCalls() and set the interval
InitDashboard ==
    /\ RelayQuiet
    /\ callLogs = {}
    /\ searchQuery = NULL
    /\ searchResult = NULL
    /\ calls = <<>>
    /\ pagination = [page |-> 1]
    /\ searchParams = NoParams
    /\ fetches = SetToBag({Fetch(1, NoParams, "mount")})

\* handleSearch(params)
HandleSearch(params) ==
    /\ CanFetch
    /\ searchParams' = params
    /\ pagination' = [pagination EXCEPT !.page = 1]
    /\ fetches' = fetches (+) SetToBag({Fetch(1, params, "search")})
    /\ UNCHANGED <<calls, callLogs, searchQuery, searchResult, relayVars>>

\* handlePageChange(newPage)
HandlePageChange(newPage) ==
    /\ CanFetch
    /\ fetches' = fetches (+) SetToBag({Fetch(newPage, searchParams, "page")})
    /\ UNCHANGED <<calls, pagination, searchParams, callLogs, searchQuery,
                   searchResult, relayVars>>

\* the setInterval callback, every 30 seconds
Tick ==
    /\ CanFetch
    /\ fetches' = fetches (+) SetToBag({Fetch(IntervalClosure.page,
                                              IntervalClosure.search, "interval")})
    /\ UNCHANGED <<calls, pagination, searchParams, callLogs, searchQuery,
                   searchResult, relayVars>>

\* bodies a response can carry: an object with `calls` (its pagination, given
\* or derived, names the requested page), any other JSON, or a failure
ResponseShapes == {"calls", "other", "fail"}

\* fetchCalls from the response on
FetchResolve(f, shape) ==
    /\ f \in FetchSet
    /\ fetches' = fetches (-) SetToBag({f})
    /\ IF shape = "calls"
       THEN /\ calls' = Listing(f.page, f.search)
            /\ pagination' = [pagination EXCEPT !.page = f.page]
       ELSE UNCHANGED <<calls, pagination>>
    /\ UNCHANGED <<searchParams, callLogs, searchQuery, searchResult, relayVars>>

NextDashboard ==
    \/ \E params \in SearchInputs : HandleSearch(params)
    \/ \E newPage \in 1..MaxPage : HandlePageChange(newPage)
    \/ Tick
    \/ \E f \in FetchSet, shape \in ResponseShapes : FetchResolve(f, shape)

SpecDashboard == InitDashboard /\ [][NextDashboard]_vars

(* ============================== properties ============================= *)
\* number of handlers of connection c suspended at an await of one of kinds
Outstanding(c, kinds) ==
    SumOver(tasks, { t \in TaskSet : t.conn = c /\ t.kind \in kinds })

DispatchKinds == {"reasoning", "replySpeech", "errorSpeech"}

\* number of summaries generateCallSummary has returned that are not null
RECURSIVE NonNull(_)
NonNull(log) ==
    IF log = <<>> THEN 0
    ELSE (IF Head(log).result.kind = "null" THEN 0 ELSE 1) + NonNull(Tail(log))

\* C1: on every connection at most one 'transcription' handler is suspended
\* at a time, so at most one processUserMessage request is outstanding, and
\* isProcessing is set exactly while that handler is suspended
C1_OneDispatchInFlight ==
    \A c \in Conns :
        /\ Outstanding(c, DispatchKinds) <= 1
        /\ isProcessing[c] <=> Outstanding(c, DispatchKinds) = 1

\* a second dispatch has its request outstanding after the first one resolved
C1_Witness ==
    \E c \in Conns :
        /\ Outstanding(c, {"reasoning"}) = 1
        /\ isProcessing[c]
        /\ Len(Turns(sessionId[c])) = 3

\* C2: a connection never has two requests to the reasoning collaborator
\* outstanding, counting turn dispatches and summary extractions
C2_OneReasoningRequest ==
    \A c \in Conns : Outstanding(c, {"reasoning", "summary"}) <= 1

\* C3: when the reasoning collaborator fails, the turns under the dispatch's
\* key are those it had before the dispatch began
C3_FailureRestoresHistory ==
    [][\A t \in TaskSet :
          ReasoningResolve(t, FAIL) => Turns(t.sid)' = t.before]_vars

\* C4: interim fragments leave every history as it is, and a non-blank final
\* fragment received with no request in flight appends exactly one caller
\* turn, whose text is the final fragment's text
C4_OneCallerTurnPerFinal ==
    [][\A c \in Conns :
          /\ \A inp \in env.interims :
                Interim(c, inp) => UNCHANGED <<conversationHistory, heap>>
          /\ \A inp \in env.finals :
                (Final(c, inp) /\ inp.alt /\ NonBlank(inp.transcript) /\ ~isProcessing[c])
                   => Turns(sessionId[c])' =
                         Append(Turns(sessionId[c]), Msg("user", inp.transcript))]_vars

\* an interim fragment was buffered and the final fragment "hi" is the one
\* caller turn of the call
C4_Witness ==
    \E c \in Conns :
        /\ conversationBuffer[c] = "I need"
        /\ Outstanding(c, {"reasoning"}) = 1
        /\ Turns(sessionId[c]) = <<Msg("user", "hi")>>

\* no summary callback of connection c is pending or suspended
SummarySettled(c) ==
    /\ Outstanding(c, {"summary"}) = 0
    /\ \A i \in 1..Len(timers) : ~(timers[i].kind = "summary" /\ timers[i].conn = c)

\* C5: once the summary work of a stopped call has settled, exactly one
\* summary has been produced for it, and never more than one
C5_ExactlyOneSummary ==
    \A c \in Conns :
        /\ NonNull(summaryLog[c]) <= 1
        /\ (stops[c] > 0 /\ SummarySettled(c)) => NonNull(summaryLog[c]) = 1

\* C6: a summary response without a brace-delimited block, or with one that
\* is not valid JSON, yields the degraded summary
C6_MalformedYieldsDegraded ==
    \A c \in Conns : \A i \in 1..Len(summaryLog[c]) :
        LET e == summaryLog[c][i]
        IN  (/\ e.requested
             /\ e.response # FAIL
             /\ (~HasJsonMatch(e.response) \/ ~JsonValid(JsonMatch(e.response))))
               => e.result.kind = "degraded"

\* C7: a summary callback that finds no turns still yields a summary, with
\* empty intent, summary text and action items
C7_ZeroTurnsYieldsSummary ==
    \A c \in Conns : \A i \in 1..Len(summaryLog[c]) :
        LET e == summaryLog[c][i]
        IN  ~e.requested =>
               /\ e.result.kind # "null"
               /\ e.result.caller_intent = ""
               /\ e.result.summary = ""
               /\ e.result.action_items = <<>>

\* C8: a fragment received after 'stop' starts no request, sends no audio
\* and leaves the histories unchanged
C8_FragmentsAfterStopIgnored ==
    [][\A c \in Conns :
          stops[c] > 0 =>
             /\ \A inp \in env.interims :
                   Interim(c, inp) => UNCHANGED <<tasks, sent, conversationHistory, heap>>
             /\ \A inp \in env.finals :
                   Final(c, inp) => UNCHANGED <<tasks, sent, conversationHistory, heap>>]_vars

\* C9: a key whose history the delayed teardown has removed has no history
\* entry afterwards
C9_NoResurrection == \A key \in tornDown : ~Has(key)

\* C10: when 'stop' arrived while a dispatch was outstanding, its reply is
\* not appended to the history and its audio is not sent
C10_LateReplyDiscarded ==
    [][\A t \in TaskSet :
          stops[t.conn] > t.stopsBefore =>
             /\ (\E out \in Replies : ReasoningResolve(t, out)) => UNCHANGED heap
             /\ ReplySpeechDone(t, TRUE) => UNCHANGED sent]_vars

\* C11: a dispatch whose reasoning request is never answered still ends: on
\* every connection a set in-flight flag is eventually cleared again (so that
\* later final fragments are dispatched).
C11_DispatchEventuallyEnds ==
    \A c \in Conns : isProcessing[c] ~> ~isProcessing[c]

\* C12: on every connection the greeting frame caused by a 'start' precedes
\* the reply frame of every final fragment that arrived after that 'start':
\* no frame caused by a later event stands before a greeting frame.
C12_GreetingBeforeLaterReplies ==
    \A c \in Conns : \A i, j \in 1..Len(sent[c]) :
        (i < j /\ sent[c][j].payload = Greeting /\ sent[c][i].payload # Greeting)
            => sent[c][i].seq < sent[c][j].seq

\* the number of reasoning requests of turn dispatches outstanding against
\* the history array r
RequestsAgainst(r) ==
    SumOver([t \in TaskSet |-> IF t.kind = "reasoning" /\ t.ref = r
                               THEN CopiesIn(t, tasks) ELSE 0], TaskSet)

\* C13: accesses to one call's history are serialized, also when two
\* connections carry the same call identifier: no history ever has two
\* turn-dispatch requests outstanding against it at once.
C13_SameCallSerialized ==
    \A r \in DOMAIN heap : RequestsAgainst(r) <= 1

\* every key a history can be stored under
Keys == StreamSids \cup {NULL}

\* the step is taken by connection c and may write its locals: one of its
\* events, or the completion of a request one of its handlers awaits
StepOf(c) ==
    \/ \E sid \in env.sids : Start(c, sid)
    \/ \E inp \in env.interims : Interim(c, inp)
    \/ \E inp \in env.finals : Final(c, inp)
    \/ \E t \in TaskSet :
          /\ t.conn = c
          /\ \E ok \in BOOLEAN : ReplySpeechDone(t, ok) \/ ErrorSpeechDone(t, ok)

\* the step is taken for the call stored under key and may write its turns:
\* a final fragment of a connection carrying key, the answer to a turn
\* dispatched for key, or the delayed delete of key
StepFor(key) ==
    \/ \E c \in Conns, inp \in env.finals : sessionId[c] = key /\ Final(c, inp)
    \/ \E t \in TaskSet, out \in Replies \cup {FAIL} :
          t.sid = key /\ ReasoningResolve(t, out)
    \/ FireTeardownTimer /\ Head(timers).sid = key

\* C14: calls with distinct identifiers on distinct connections do not
\* interfere.  The buffer and the in-flight flag of a connection change only
\* in a step of that connection, the turns of a call only in a step taken
\* for that call, and a final fragment "hi" arriving on a connection that is
\* not dispatching is dispatched even while another connection is.
C14_DistinctCallsIndependent ==
    [][/\ \A c \in Conns :
            /\ (\/ conversationBuffer'[c] # conversationBuffer[c]
                \/ isProcessing'[c] # isProcessing[c]) => StepOf(c)
            /\ ((\E d \in Conns \ {c} : isProcessing[d])
                    /\ ~isProcessing[c] /\ Final(c, Alt("hi")))
                  => lastFinal'[c] = "dispatched" /\ Outstanding(c, {"reasoning"})' = 1
       /\ \A key \in Keys : Turns(key)' # Turns(key) => StepFor(key)]_vars

\* two calls with distinct identifiers have a turn dispatch outstanding at
\* the same time, each on its own connection and its own history
C14_Witness ==
    \E t1, t2 \in TaskSet :
        /\ t1.kind = "reasoning" /\ t2.kind = "reasoning"
        /\ t1.conn # t2.conn /\ t1.sid # t2.sid /\ t1.ref # t2.ref
        /\ sessionId[t1.conn] = t1.sid /\ sessionId[t2.conn] = t2.sid

\* C15: the buffer of a connection is replaced by the text of each interim
\* fragment that carries one, and it is empty right after a final fragment
\* that carries a text has been handled.
C15_BufferClearedByFinal ==
    [][\A c \in Conns :
          /\ \A inp \in env.interims :
                (Interim(c, inp) /\ inp.alt) => conversationBuffer'[c] = inp.transcript
          /\ \A inp \in env.finals :
                (Final(c, inp) /\ inp.alt) => conversationBuffer'[c] = ""]_vars

\* C16: a final fragment whose text is empty or only white space is
\* discarded: handling it appends no turn, starts no request, sends no frame
\* and leaves the in-flight flag as it was.
C16_BlankFinalDiscarded ==
    [][\A c \in Conns : \A inp \in env.finals :
          (inp.alt /\ Trim(inp.transcript) = "" /\ Final(c, inp))
             => UNCHANGED <<conversationHistory, heap, tasks, sent, isProcessing>>]_vars

\* a connection on which no dispatch is in flight has just discarded a blank
\* final fragment of a call that already has a turn
C16_Witness ==
    \E c \in Conns :
        /\ lastFinal[c] = "blank"
        /\ Len(Turns(sessionId[c])) >= 2
        /\ ~isProcessing[c]

\* C17: the summary generation triggered by a 'stop' reads the call's
\* history before any teardown has deleted it: when the callback of 'stop'
\* runs, no delayed delete of the call's key has run yet.
C17_SummaryReadsBeforeTeardown ==
    [][FireSummaryTimer => sessionId[Head(timers).conn] \notin tornDown]_vars

\* C18: a failed speech synthesis is absorbed by the handler.  When the
\* synthesis of the greeting fails the handler ends and sends nothing; when
\* the synthesis of a reply fails nothing is sent and the fallback utterance
\* is synthesized; when that fails too nothing is sent; and whenever the
\* handler of a final fragment ends, the in-flight flag is cleared and no
\* request of it is left, so that the next final fragment "hi" is accepted.
C18_SpeechFailureAbsorbed ==
    [][\A t \in TaskSet :
          /\ GreetingSpeechDone(t, FALSE)
                => UNCHANGED <<sent, isProcessing>> /\ tasks' = RemoveTask(tasks, t)
          /\ ReplySpeechDone(t, FALSE)
                => /\ UNCHANGED sent
                   /\ Outstanding(t.conn, {"errorSpeech"})' = 1
          /\ ErrorSpeechDone(t, FALSE) => UNCHANGED sent
          /\ (\E ok \in BOOLEAN : ErrorSpeechDone(t, ok))
                => /\ Outstanding(t.conn, DispatchKinds)' = 0
                   /\ ~isProcessing'[t.conn]
                   /\ AcceptsFinal(t.conn, Alt("hi"))']_vars

\* on an open connection a dispatch has ended without any frame sent: the
\* synthesis of its reply and of the fallback utterance both failed
C18_Witness ==
    \E c \in Conns :
        /\ wsState[c] = "open"
        /\ lastFinal[c] = "dispatched"
        /\ Outstanding(c, DispatchKinds) = 0
        /\ ~isProcessing[c]
        /\ sent[c] = <<>>

\* the requests the handlers of connection c are suspended at after the step
DispatchTasksAfter(c) ==
    { u \in BagToSet(tasks') : u.conn = c /\ u.kind \in DispatchKinds }

\* a failed reasoning request leaves the dispatch with exactly one request:
\* the synthesis of the apology
ApologySynthesized ==
    \A t \in TaskSet :
        ReasoningResolve(t, FAIL)
           => /\ Outstanding(t.conn, DispatchKinds)' = 1
              /\ \A u \in DispatchTasksAfter(t.conn) :
                    u.kind = "replySpeech" /\ u.text = Apology

\* the handler ends with the apology's frame as the one frame it sent
ApologyEmitted(t) ==
    /\ sent'[t.conn] = Append(sent[t.conn], Frame(sessionId[t.conn], Apology, t.seq))
    /\ Outstanding(t.conn, DispatchKinds)' = 0
    /\ ~isProcessing'[t.conn]

\* C19 as stated: when the reasoning collaborator fails during a dispatch,
\* exactly one apology utterance is synthesized, and when its synthesis
\* request settles the apology has been emitted as the dispatch's one frame
\* and the in-flight flag is cleared.
C19_ApologyEmitted ==
    [][/\ ApologySynthesized
       /\ \A t \in TaskSet :
            (t.text = Apology /\ \E ok \in BOOLEAN : ReplySpeechDone(t, ok))
               => ApologyEmitted(t)]_vars

\* C19 amended: when the reasoning collaborator fails during a dispatch,
\* exactly one apology utterance is synthesized; if that synthesis succeeds
\* the dispatch ends with the in-flight flag cleared, and on a connection
\* that is still open the apology is the one frame it emitted; if it fails,
\* no apology frame is sent and the fallback utterance is synthesized.
C19_ApologyEmittedIfSynthesized ==
    [][/\ ApologySynthesized
       /\ \A t \in TaskSet :
            /\ (t.text = Apology /\ ReplySpeechDone(t, TRUE))
                  => /\ Outstanding(t.conn, DispatchKinds)' = 0
                     /\ ~isProcessing'[t.conn]
                     /\ wsState[t.conn] = "open" => ApologyEmitted(t)
                     /\ wsState[t.conn] # "open" => UNCHANGED sent
            /\ (t.text = Apology /\ ReplySpeechDone(t, FALSE))
                  => /\ UNCHANGED sent
                     /\ \A u \in DispatchTasksAfter(t.conn) :
                           u.kind = "errorSpeech" /\ u.text = ErrorResponse]_vars

\* a dispatch whose reasoning request failed has ended, and the apology is
\* the last frame sent on its connection
C19_Witness ==
    \E c \in Conns :
        /\ Len(sent[c]) > 0
        /\ sent[c][Len(sent[c])].payload = Apology
        /\ Outstanding(c, DispatchKinds) = 0
        /\ ~isProcessing[c]
        /\ \E key \in DOMAIN conversationHistory :
              Turns(key) = <<Msg("user", "hi")>>

\* the caller turn and the assistant turn of the dispatch t answered by out
TurnPair(t, out) == <<Msg("user", t.text), Msg("assistant", out)>>

\* the handler ends with the reply's frame as the one frame it sent
ReplyEmitted(t) ==
    /\ sent'[t.conn] = Append(sent[t.conn], Frame(sessionId[t.conn], t.text, t.seq))
    /\ Outstanding(t.conn, DispatchKinds)' = 0
    /\ ~isProcessing'[t.conn]

OldestPairRemoved(turns) ==
    IF Len(turns) + 1 > HistoryLimit THEN SubSeq(turns, 3, Len(turns)) ELSE turns

Requests == { t \in TaskSet : t.kind = "reasoning" }

\* C21 as stated: the request of every turn dispatch carries all the turns
\* ever appended to the call's history, in order, the new caller text last.
C21_FullHistorySent ==
    \A t \in Requests : t.messages = journal[t.ref].pushed

\* the last n entries of the sequence q
Suffix(q, n) == SubSeq(q, Len(q) - n + 1, Len(q))

\* C21 amended: the request of every turn dispatch carries the most recent
\* turns appended to the call's history, in order and without a gap, the new
\* caller text last; it carries all of them unless older ones were trimmed
\* away, and then it still carries at least HistoryLimit messages.
C21_RecentHistorySent ==
    \A t \in Requests :
        LET pushed == journal[t.ref].pushed
            n == Len(t.messages)
        IN  /\ n <= Len(pushed)
            /\ t.messages = Suffix(pushed, n)
            /\ t.messages[n] = Msg("user", t.text)
            /\ n = Len(pushed) \/ n >= HistoryLimit

\* a dispatch is outstanding on a history that has been trimmed: its request
\* carries fewer turns than the call has had
C21_Witness ==
    \E t \in Requests :
        /\ Len(t.messages) = HistoryLimit
        /\ Len(journal[t.ref].pushed) = HistoryLimit + 2

\* C22: a final fragment on a connection that has not received 'start' (no
\* call identifier is known) is ignored: handling it starts no request and
\* creates or changes no history.
C22_UnknownCallIgnored ==
    [][\A c \in Conns : \A inp \in env.finals :
          (sessionId[c] = NULL /\ Final(c, inp))
             => UNCHANGED <<tasks, conversationHistory, heap>>]_vars

\* C24: a pending removal never deletes a history that was created for the
\* same call identifier after the removal was scheduled: the history a
\* delayed delete removes was created by an event that arrived before
\* endConversation armed the timer.
C24_RemovalSparesLaterHistory ==
    [][FireTeardownTimer =>
          LET timer == Head(timers)
          IN  Has(timer.sid) =>
                 journal[conversationHistory[timer.sid]].createdAt < timer.armedAt]_vars

\* C25: whenever processUserMessage completes, with a reply or with the
\* collaborator's failure, the history it worked on holds at most
\* HistoryLimit entries.
C25_HistoryBounded ==
    [][\A t \in TaskSet : \A out \in Replies \cup {FAIL} :
          (ReasoningResolve(t, out) /\ t.ref \in DOMAIN heap')
             => Len(heap'[t.ref]) <= HistoryLimit]_vars

\* the history h is the system entry followed by caller and assistant turns
\* in strict alternation, a caller turn first and an assistant turn last
Alternating(h) ==
    /\ Len(h) % 2 = 1
    /\ h[1].role = "system"
    /\ \A i \in 2..Len(h) :
          h[i].role = IF i % 2 = 0 THEN "user" ELSE "assistant"

\* C26: while no handler of a turn dispatch is suspended, every history in
\* the map is the system entry followed by strictly alternating caller and
\* assistant turns.
C26_TurnsAlternate ==
    (\A c \in Conns : Outstanding(c, DispatchKinds) = 0)
        => \A key \in DOMAIN conversationHistory : Alternating(HistoryOf(key))

\* C27: a final fragment with a text that arrives while a dispatch is in
\* flight on its connection is dropped for good: handling it changes
\* nothing the server keeps (no history, no request, no timer, no frame, no
\* local of the connection), so that nothing is left to dispatch it later.
C27_BusyFinalDropped ==
    [][\A c \in Conns : \A inp \in env.finals :
          (isProcessing[c] /\ inp.alt /\ NonBlank(inp.transcript) /\ Final(c, inp))
             => /\ lastFinal'[c] = "busy"
                /\ UNCHANGED <<connVars, conversationHistory, heap, journal, tasks,
                               timers, sent, summaryLog, stops, tornDown>>]_vars

\* the latest final fragment of a connection was dropped while a dispatch was
\* in flight, that dispatch has ended, and the call's history holds the one
\* turn that was dispatched
C27_Witness ==
    \E c \in Conns :
        /\ wsState[c] = "open"
        /\ lastFinal[c] = "busy"
        /\ ~isProcessing[c]
        /\ Outstanding(c, DispatchKinds) = 0
        /\ Turns(sessionId[c]) = <<Msg("user", "hi"), Msg("assistant", "ok")>>

\* summary generation has been triggered for connection c: a callback of
\* 'stop' is pending, a summary request is outstanding, or generateCallSummary
\* has returned
SummaryTriggered(c) ==
    \/ \E i \in 1..Len(timers) : timers[i].kind = "summary" /\ timers[i].conn = c
    \/ Outstanding(c, {"summary"}) > 0
    \/ summaryLog[c] # <<>>

\* C28: the close of a connection schedules the deletion of its call's
\* history and nothing else: it starts no summary request and arms no summary
\* callback, and summary generation is triggered on a connection only after
\* a 'stop' has been handled on it.
C28_CloseSchedulesTeardownOnly ==
    [][\A c \in Conns :
          /\ Close(c) =>
                /\ UNCHANGED <<tasks, summaryLog, conversationHistory, heap>>
                /\ IF sessionId[c] = NULL THEN UNCHANGED timers
                   ELSE /\ Len(timers') = Len(timers) + 1
                        /\ \E i \in 1..Len(timers') :
                              /\ timers'[i] = Timer("teardown", 0, sessionId[c], nEvents)
                              /\ timers = SubSeq(timers', 1, i - 1)
                                              \o SubSeq(timers', i + 1, Len(timers'))
          /\ SummaryTriggered(c)' => stops'[c] > 0]_vars

\* a connection closed without any 'stop': its call's history has been
\* deleted and no summary generation was ever triggered
C28_Witness ==
    \E c \in Conns :
        /\ wsState[c] = "closed"
        /\ stops[c] = 0
        /\ sessionId[c] \in tornDown
        /\ ~SummaryTriggered(c)
        /\ Len(sent[c]) >= 2

\* C29: every history is removed in the end: once a connection has closed
\* and no timer and no request is pending any more, the history map holds no
\* entry (the runs checked have this one connection, so every entry is under
\* a key it used).
C29_EveryHistoryRemoved ==
    \A c \in Conns :
        (wsState[c] = "closed" /\ timers = <<>> /\ tasks = EmptyBag)
            => conversationHistory = EmptyMap


\* C23: a search returns exactly the records in which the query occurs as a
\* substring of the caller phone, the caller intent, the summary or the
\* transcript
InAnyField(row, query) ==
    \/ Contains(row.caller_phone, query)
    \/ Contains(row.caller_intent, query)
    \/ Contains(row.summary, query)
    \/ Contains(row.transcript, query)

C23_SearchCoversTranscript ==
    searchQuery # NULL =>
        { searchResult[i].id : i \in 1..Len(searchResult) }
            = { r.id : r \in { x \in callLogs : InAnyField(x, searchQuery) } }

\* C30: a periodic refresh requests the page and the search filters current
\* when it fires, and once the user has changed page or applied a search the
\* response to a periodic refresh does not put page 1 of the unfiltered list
\* on display
C30_RefreshUsesCurrentView ==
    [][/\ Tick => \E f \in BagToSet(fetches') :
                     /\ f.by = "interval"
                     /\ f.page = pagination.page
                     /\ f.search = searchParams
       /\ \A f \in FetchSet :
            (/\ f.by = "interval"
             /\ (pagination.page # 1 \/ searchParams # NoParams)
             /\ FetchResolve(f, "calls"))
                => calls' # Listing(1, NoParams)]_vars

====
